---- MODULE Spec2Model ----
(***************************************************************************)
(* Model of server/plugin.go: the /create handler of the Doc Up plugin.    *)
(* One request is followed from its arrival to the handler's exit.  The    *)
(* handler is cut at its collaborator calls (GetUser, GetPost,             *)
(* Issues.Create, CreatePost); the code between two calls belongs to the   *)
(* action of the call it follows.                                          *)
(*                                                                         *)
(* Configured strings that the handler splits (the repositories, the       *)
(* labels) are sequences of one-character strings, so that strings.Split   *)
(* is computed.  Identifiers that are only passed around are TLA+ strings. *)
(***************************************************************************)
EXTENDS Integers, Sequences, FiniteSets, TLC

VARIABLES
    configuration,  \* p.configuration: the active plugin configuration
    pc,             \* position of the handler
    userID,         \* r.Header.Get("Mattermost-User-ID")
    request,        \* r.Body: what the decoder finds in it
    status,         \* status written to w (0: none written)
    events,         \* collaborator calls, log entries and status writes, in order
    owner,          \* repoSplit[0]
    repo,           \* repoSplit[1]
    labels,         \* label list built from config.Labels
    user,           \* result of GetUser
    serverConfig,   \* result of GetConfig
    docPost,        \* result of GetPost
    rootID,         \* thread root chosen for the confirmation post
    permalink,      \* parsed site URL with the redirect path joined
    issueRequest,   \* *github.IssueRequest passed to Issues.Create
    issue,          \* result of Issues.Create
    post            \* *model.Post passed to CreatePost

vars == <<configuration, pc, userID, request, status, events, owner, repo,
          labels, user, serverConfig, docPost, rootID, permalink,
          issueRequest, issue, post>>

locals == <<owner, repo, labels, user, serverConfig, docPost, rootID,
            permalink, issueRequest, issue, post>>

----------------------------------------------------------------------------
(* Bounds of the inputs *)

MaxRepoLen == 3
MaxLabelLen == 3

(* Status codes of net/http *)
StatusOK == 200
StatusBadRequest == 400
StatusUnauthorized == 401
StatusInternalServerError == 500

----------------------------------------------------------------------------
(* Strings as sequences of characters *)

RECURSIVE StringsUpTo(_, _)
StringsUpTo(alphabet, n) ==
    IF n = 0 THEN {<<>>}
    ELSE LET shorter == StringsUpTo(alphabet, n - 1)
         IN  shorter \cup {Append(s, c) : s \in shorter, c \in alphabet}

Contains(s, c) == \E i \in 1..Len(s) : s[i] = c

Index(s, c) == CHOOSE i \in 1..Len(s) : s[i] = c /\ \A j \in 1..(i - 1) : s[j] # c

(* strings.Split(s, sep) for a one-character sep: the substrings between   *)
(* the separators, in order; a string without separator (the empty string  *)
(* too) gives the one-element list holding it.                             *)
RECURSIVE Split(_, _)
Split(s, sep) ==
    IF Contains(s, sep)
    THEN <<SubSeq(s, 1, Index(s, sep) - 1)>>
             \o Split(SubSeq(s, Index(s, sep) + 1, Len(s)), sep)
    ELSE <<s>>

----------------------------------------------------------------------------
(* The inputs: configurations, requests and collaborator results *)

RepoAlphabet == {"o", "/"}
LabelAlphabet == {"a", ","}

RepoStrings == StringsUpTo(RepoAlphabet, MaxRepoLen)
LabelStrings == StringsUpTo(LabelAlphabet, MaxLabelLen)

RepoFields == {"AdminRepository", "DeveloperRepository", "HandbookRepository"}

(* A well-formed repository string per field, told apart by its letters *)
PlainRepository ==
    [AdminRepository     |-> <<"a", "/", "x">>,
     DeveloperRepository |-> <<"d", "/", "y">>,
     HandbookRepository  |-> <<"h", "/", "z">>]

(* Configurations whose repositories are unset or plain *)
PlainConfigurations ==
    [AdminRepository     : {<<>>, PlainRepository.AdminRepository},
     DeveloperRepository : {<<>>, PlainRepository.DeveloperRepository},
     HandbookRepository  : {<<>>, PlainRepository.HandbookRepository},
     Labels              : LabelStrings]

(* The configurations considered: a plain one, or a plain one with one of  *)
(* its repositories set to any string of the bounded set.                  *)
Configurations ==
    PlainConfigurations \cup
    UNION {{[c EXCEPT ![f] = s] : c \in PlainConfigurations, s \in RepoStrings}
              : f \in RepoFields}

UserIDs == {"", "U1"}
Types == {"admin", "developer", "handbook", "other"}
Titles == {"T"}
PostIDs == {"M1"}

NoRequest == [kind |-> "none", Type |-> "", Title |-> "", Body |-> "", PostID |-> ""]

(* What decoder.Decode finds in the body: bytes that are no JSON value     *)
(* (the empty body too), the literal null, or an object.                   *)
Requests ==
    {[kind |-> "malformed", Type |-> "", Title |-> "", Body |-> "", PostID |-> ""],
     [kind |-> "null", Type |-> "", Title |-> "", Body |-> "", PostID |-> ""]}
    \cup [kind : {"object"}, Type : Types, Title : Titles, Body : {"B"}, PostID : PostIDs]

NoUser == [Username |-> ""]
Users == {[Username |-> "alice"]}

(* ServiceSettings.SiteURL is a *string: nil, a string url.Parse rejects,  *)
(* or a URL given by what precedes its path and by the path's segments     *)
(* (an empty segment stands for a doubled or trailing slash).              *)
NoSiteURL == [kind |-> "nil", base |-> "", path |-> <<>>]
SiteURLs ==
    {NoSiteURL,
     [kind |-> "unparsable", base |-> "", path |-> <<>>],
     [kind |-> "url", base |-> "", path |-> <<>>],
     [kind |-> "url", base |-> "https://chat.example.com", path |-> <<>>],
     [kind |-> "url", base |-> "https://chat.example.com", path |-> <<"sub", "">>]}

NoPost == [Id |-> "", RootId |-> "", ChannelId |-> ""]
ChannelIDs == {"ch1", "ch2"}
ParentIDs == {"", "P"}

NoPermalink == [base |-> "", path |-> <<>>]
NoIssueBody == [Username |-> "", SiteURL |-> NoSiteURL, Body |-> "", Permalink |-> NoPermalink]
NoIssueRequest == [Owner |-> <<>>, Repo |-> <<>>, Title |-> "", Body |-> NoIssueBody, Labels |-> <<>>]
NoIssue == [HTMLURL |-> ""]
IssueURLs == {"https://github.com/issues/1", "https://github.com/issues/2"}
NoNewPost == [UserId |-> "", ChannelId |-> "", RootId |-> "",
              Message |-> [permalink |-> NoPermalink, issue |-> ""]]

----------------------------------------------------------------------------
(* Events *)

Called(op, outcome) == [op |-> op, info |-> outcome]
LogError(msg) == [op |-> "LogError", info |-> msg]
WriteHeader(code) == [op |-> "WriteHeader", info |-> ToString(code)]
Panic == [op |-> "panic", info |-> "nil pointer dereference"]

----------------------------------------------------------------------------
(* The steps of handleCreate that compute *)

(* Mutant: the check of the identity header is left out *)
HeaderMissing_Skipped(uid) == FALSE

HeaderMissing(uid) == uid = ""

DecodeFails(req) == req.kind = "malformed"

(* Decoding the literal null into the *CreateAPIRequest leaves it nil *)
DecodesToNil(req) == req.kind = "null"

(* Mutant: the developer case reads the admin repository *)
ResolveRepository_Swapped(config, type) ==
    CASE type = "admin"     -> config.AdminRepository
      [] type = "developer" -> config.AdminRepository
      [] type = "handbook"  -> config.HandbookRepository
      [] OTHER              -> <<>>

ResolveRepository(config, type) ==
    CASE type = "admin"     -> config.AdminRepository
      [] type = "developer" -> config.DeveloperRepository
      [] type = "handbook"  -> config.HandbookRepository
      [] OTHER              -> <<>>

Unresolved(ownerAndRepo) == ownerAndRepo = <<>>

(* Mutant: only too few parts are rejected *)
BadRepoSplit_TooFew(repoSplit) == Len(repoSplit) < 2

BadRepoSplit(repoSplit) == Len(repoSplit) # 2

(* Mutant: the labels are split without the test for the empty string *)
ParseLabels_NoGuard(labelsConfig) == Split(labelsConfig, ",")

ParseLabels(labelsConfig) ==
    IF labelsConfig # <<>> THEN Split(labelsConfig, ",") ELSE <<>>

(* Mutant: the source message is always taken as the thread root *)
ThreadRoot_OwnId(p) == p.Id

ThreadRoot(p) == IF p.RootId = "" THEN p.Id ELSE p.RootId

(* url.Parse: no URL for a string it rejects *)
ParseFails(siteURL) == siteURL.kind = "unparsable"

(* path.Join: the non-empty elements, in order, one slash between them *)
PathJoin(elems) == SelectSeq(elems, LAMBDA e : e # "")

(* The parsed site URL with "_redirect", "pl" and the post id joined to    *)
(* its path.                                                               *)
Permalink(siteURL, id) ==
    [base |-> siteURL.base,
     path |-> PathJoin(siteURL.path \o <<"_redirect", "pl", id>>)]

IssueTitle(title) == "Request for Documentation: " \o title

----------------------------------------------------------------------------
(* The ways a step ends the request *)

Respond(calls, code) ==
    /\ events' = events \o calls \o <<WriteHeader(code)>>
    /\ status' = code
    /\ pc' = "done"

(* Mutant: the status is written without the log entry *)
Fail500_NoLog(calls, cause) ==
    /\ events' = events \o calls \o <<WriteHeader(StatusInternalServerError)>>
    /\ status' = StatusInternalServerError
    /\ pc' = "done"

Fail500(calls, cause) ==
    /\ events' = events \o calls \o <<LogError(cause), WriteHeader(StatusInternalServerError)>>
    /\ status' = StatusInternalServerError
    /\ pc' = "done"

Panics(calls) ==
    /\ events' = events \o calls \o <<Panic>>
    /\ status' = status
    /\ pc' = "panicked"

----------------------------------------------------------------------------
(* The state machine *)

Init ==
    /\ configuration \in Configurations
    /\ pc = "start"
    /\ userID = ""
    /\ request = NoRequest
    /\ status = 0
    /\ events = <<>>
    /\ owner = <<>>
    /\ repo = <<>>
    /\ labels = <<>>
    /\ user = NoUser
    /\ serverConfig = [SiteURL |-> NoSiteURL]
    /\ docPost = NoPost
    /\ rootID = ""
    /\ permalink = NoPermalink
    /\ issueRequest = NoIssueRequest
    /\ issue = NoIssue
    /\ post = NoNewPost

(* Lines 68-114: the identity header, the payload, the repository of the   *)
(* request's type and the labels.                                          *)
Begin ==
    /\ pc = "start"
    /\ \E uid \in UserIDs, req \in Requests :
        /\ userID' = uid
        /\ request' = req
        /\ IF HeaderMissing(uid)
           THEN /\ Respond(<<>>, StatusUnauthorized)
                /\ UNCHANGED <<owner, repo, labels>>
           ELSE IF DecodeFails(req)
           THEN /\ Fail500(<<>>, "Unable to decode JSON")
                /\ UNCHANGED <<owner, repo, labels>>
           ELSE IF DecodesToNil(req)
           THEN /\ Panics(<<>>)
                /\ UNCHANGED <<owner, repo, labels>>
           ELSE LET ownerAndRepo == ResolveRepository(configuration, req.Type)
                    repoSplit == Split(ownerAndRepo, "/")
                IN  IF Unresolved(ownerAndRepo)
                    THEN /\ Respond(<<>>, StatusBadRequest)
                         /\ UNCHANGED <<owner, repo, labels>>
                    ELSE IF BadRepoSplit(repoSplit)
                    THEN /\ Fail500(<<>>, "Bad configured repo")
                         /\ UNCHANGED <<owner, repo, labels>>
                    ELSE /\ owner' = repoSplit[1]
                         /\ repo' = repoSplit[2]
                         /\ labels' = ParseLabels(configuration.Labels)
                         /\ pc' = "GetUser"
                         /\ UNCHANGED <<status, events>>
    /\ UNCHANGED <<configuration, user, serverConfig, docPost, rootID,
                   permalink, issueRequest, issue, post>>

(* Mutant: the return after a failed GetUser is missing *)
CallGetUser_NoReturn ==
    /\ pc = "GetUser"
    /\ \/ /\ events' = events \o <<Called("GetUser", "err"), LogError("Unable to get user"),
                                    WriteHeader(StatusInternalServerError)>>
          /\ status' = StatusInternalServerError
          /\ pc' = "GetPost"
          /\ UNCHANGED <<user, serverConfig>>
       \/ \E u \in Users, siteURL \in SiteURLs :
            /\ user' = u
            /\ serverConfig' = [SiteURL |-> siteURL]
            /\ events' = events \o <<Called("GetUser", "ok"), Called("GetConfig", "ok")>>
            /\ pc' = "GetPost"
            /\ UNCHANGED status
    /\ UNCHANGED <<configuration, userID, request, owner, repo, labels,
                   docPost, rootID, permalink, issueRequest, issue, post>>

(* Lines 116-123: the requesting user, then the server's configuration *)
CallGetUser ==
    /\ pc = "GetUser"
    /\ \/ /\ Fail500(<<Called("GetUser", "err")>>, "Unable to get user")
          /\ UNCHANGED <<user, serverConfig>>
       \/ \E u \in Users, siteURL \in SiteURLs :
            /\ user' = u
            /\ serverConfig' = [SiteURL |-> siteURL]
            /\ events' = events \o <<Called("GetUser", "ok"), Called("GetConfig", "ok")>>
            /\ pc' = "GetPost"
            /\ UNCHANGED status
    /\ UNCHANGED <<configuration, userID, request, owner, repo, labels,
                   docPost, rootID, permalink, issueRequest, issue, post>>

(* Lines 125-151: the source message, its thread root, the permalink and   *)
(* the issue request.                                                      *)
CallGetPost ==
    /\ pc = "GetPost"
    /\ \/ /\ Fail500(<<Called("GetPost", "err")>>, "Unable to get post")
          /\ UNCHANGED <<docPost, rootID, permalink, issueRequest>>
       \/ \E channel \in ChannelIDs, parent \in ParentIDs :
            LET found == [Id |-> request.PostID, RootId |-> parent, ChannelId |-> channel]
                siteURL == serverConfig.SiteURL
                link == Permalink(siteURL, found.Id)
            IN  /\ docPost' = found
                /\ rootID' = ThreadRoot(found)
                /\ IF siteURL.kind = "nil" \/ ParseFails(siteURL)
                   THEN /\ Panics(<<Called("GetPost", "ok")>>)
                        /\ UNCHANGED <<permalink, issueRequest>>
                   ELSE /\ permalink' = link
                        /\ issueRequest' =
                              [Owner  |-> owner,
                               Repo   |-> repo,
                               Title  |-> IssueTitle(request.Title),
                               Body   |-> [Username  |-> user.Username,
                                           SiteURL   |-> siteURL,
                                           Body      |-> request.Body,
                                           Permalink |-> link],
                               Labels |-> labels]
                        /\ events' = events \o <<Called("GetPost", "ok")>>
                        /\ pc' = "Create"
                        /\ UNCHANGED status
    /\ UNCHANGED <<configuration, userID, request, owner, repo, labels,
                   user, serverConfig, issue, post>>

(* Lines 153-166: the issue, then the confirmation post's fields *)
CallCreate ==
    /\ pc = "Create"
    /\ \/ /\ Fail500(<<Called("Issues.Create", "err")>>, "Error creating GitHub issue")
          /\ UNCHANGED <<issue, post>>
       \/ \E htmlURL \in IssueURLs :
            /\ issue' = [HTMLURL |-> htmlURL]
            /\ post' = [UserId    |-> userID,
                        ChannelId |-> docPost.ChannelId,
                        RootId    |-> rootID,
                        Message   |-> [permalink |-> permalink, issue |-> htmlURL]]
            /\ events' = events \o <<Called("Issues.Create", "ok")>>
            /\ pc' = "CreatePost"
            /\ UNCHANGED status
    /\ UNCHANGED <<configuration, userID, request, owner, repo, labels,
                   user, serverConfig, docPost, rootID, permalink, issueRequest>>

(* Lines 168-174: the confirmation post; a handler that returns without    *)
(* writing a status answers 200.                                           *)
CallCreatePost ==
    /\ pc = "CreatePost"
    /\ \/ Fail500(<<Called("CreatePost", "err")>>, "Unable to create post")
       \/ /\ events' = events \o <<Called("CreatePost", "ok")>>
          /\ status' = StatusOK
          /\ pc' = "done"
    /\ UNCHANGED <<configuration, userID, request, locals>>

Next ==
    \/ Begin
    \/ CallGetUser
    \/ CallGetPost
    \/ CallCreate
    \/ CallCreatePost

Spec == Init /\ [][Next]_vars

----------------------------------------------------------------------------
(* Vocabulary of the properties *)

Finished == pc \in {"done", "panicked"}

CallOps == {"GetUser", "GetConfig", "GetPost", "Issues.Create", "CreatePost"}

IsCall(e) == e.op \in CallOps

Happened(e) == \E i \in DOMAIN events : events[i] = e

Attempted(op) == \E i \in DOMAIN events : events[i].op = op

Categories == {"admin", "developer", "handbook"}

(* The repository string the configuration holds for a category *)
ConfiguredFor(type) ==
    IF type = "admin" THEN configuration.AdminRepository
    ELSE IF type = "developer" THEN configuration.DeveloperRepository
    ELSE configuration.HandbookRepository

SlashCount(s) == Cardinality({i \in 1..Len(s) : s[i] = "/"})

RECURSIVE Join(_, _)
Join(parts, sep) ==
    IF Len(parts) = 0 THEN <<>>
    ELSE IF Len(parts) = 1 THEN parts[1]
    ELSE parts[1] \o <<sep>> \o Join(Tail(parts), sep)

ValidRequest ==
    /\ userID # ""
    /\ request.kind = "object"
    /\ request.Type \in Categories

----------------------------------------------------------------------------
(* C1: a request without the identity header is answered 401 and nothing   *)
(* else happens: no log entry, no lookup, no issue, no confirmation post,  *)
(* whatever the body and the configuration.                                *)
C1_UnauthorizedStopsAtOnce ==
    (pc # "start" /\ userID = "") =>
        /\ pc = "done"
        /\ status = StatusUnauthorized
        /\ events = <<WriteHeader(StatusUnauthorized)>>
        /\ issueRequest = NoIssueRequest
        /\ issue = NoIssue
        /\ post = NoNewPost

C1_Witness ==
    /\ pc = "done"
    /\ userID = ""
    /\ request.kind = "object"
    /\ request.Type = "developer"
    /\ configuration.DeveloperRepository = PlainRepository.DeveloperRepository

(* C2: every request ends with one of the statuses 401, 400, 500 and 200,  *)
(* also one whose body is the literal null and one served while the site   *)
(* URL is unset or unparsable.                                             *)
C2_EveryRequestEndsWithAStatus ==
    Finished =>
        /\ status \in {StatusUnauthorized, StatusBadRequest,
                       StatusInternalServerError, StatusOK}
        /\ (status = StatusUnauthorized) = (userID = "")

(* C3: Issues.Create is called only after GetUser and GetPost succeeded,   *)
(* CreatePost only after Issues.Create succeeded; after a failed step or a *)
(* written status nothing more is called, and no call is made twice.       *)
C3_FailureAborts ==
    /\ \A i \in DOMAIN events :
          events[i].op = "Issues.Create" =>
              /\ \E j \in 1..(i - 1) : events[j] = Called("GetUser", "ok")
              /\ \E j \in 1..(i - 1) : events[j] = Called("GetPost", "ok")
    /\ \A i \in DOMAIN events :
          events[i].op = "CreatePost" =>
              \E j \in 1..(i - 1) : events[j] = Called("Issues.Create", "ok")
    /\ \A i \in DOMAIN events : \A j \in (i + 1)..Len(events) :
          /\ (events[i].info = "err" \/ events[i].op \in {"WriteHeader", "LogError", "panic"})
                => ~IsCall(events[j])
          /\ IsCall(events[i]) => events[j].op # events[i].op

C3_Witness ==
    /\ pc = "done"
    /\ Happened(Called("GetUser", "ok"))
    /\ Happened(Called("GetPost", "ok"))
    /\ Happened(Called("Issues.Create", "err"))

(* C4: with the identity header and a payload that decodes, a type outside *)
(* admin, developer and handbook, or one whose configured repository is    *)
(* empty, is answered 400, without an issue and without a post.            *)
C4_UnresolvedTypeIsBadRequest ==
    (/\ Finished
     /\ userID # ""
     /\ request.kind \in {"null", "object"}
     /\ \/ request.Type \notin Categories
        \/ ConfiguredFor(request.Type) = <<>>)
    => /\ status = StatusBadRequest
       /\ ~Attempted("Issues.Create")
       /\ ~Attempted("CreatePost")

(* C5, as stated: a configured repository string without exactly one '/'   *)
(* makes every valid request end with 500 and without an issue.            *)
C5_Original ==
    (/\ Finished
     /\ ValidRequest
     /\ SlashCount(ConfiguredFor(request.Type)) # 1)
    => /\ status = StatusInternalServerError
       /\ ~Attempted("Issues.Create")

(* C5, amended: a non-empty configured repository string without exactly   *)
(* one '/' makes every valid request end with 500 and without an issue.    *)
C5_BadRepositoryIsInternalError ==
    (/\ pc # "start"
     /\ ValidRequest
     /\ ConfiguredFor(request.Type) # <<>>
     /\ SlashCount(ConfiguredFor(request.Type)) # 1)
    => /\ pc = "done"
       /\ status = StatusInternalServerError
       /\ ~Attempted("Issues.Create")

C5_Witness ==
    /\ pc = "done"
    /\ ValidRequest
    /\ ConfiguredFor(request.Type) = <<"o", "/", "/">>
    /\ status = StatusInternalServerError

(* C6: whenever Issues.Create is called, the owner and the repository name *)
(* passed to it are both non-empty.                                        *)
C6_TargetHasTwoNonEmptyComponents ==
    Attempted("Issues.Create") =>
        /\ issueRequest.Owner # <<>>
        /\ issueRequest.Repo # <<>>

(* Two non-empty components around one '/' *)
WellFormed(s) ==
    /\ SlashCount(s) = 1
    /\ s[1] # "/"
    /\ s[Len(s)] # "/"

(* C7: when every step succeeds, the answer is 200 after one call of       *)
(* Issues.Create, on the owner and name of the repository configured for   *)
(* the request's type and with the title "Request for Documentation: "     *)
(* followed by the request's title, followed by one call of CreatePost for *)
(* a post in the source message's channel, authored as the requesting      *)
(* user, whose text holds the permalink (the site URL joined with          *)
(* _redirect/pl/<message id>) and the created issue's URL.                 *)
C7_SuccessfulRequest ==
    (/\ pc = "done"
     /\ ValidRequest
     /\ WellFormed(ConfiguredFor(request.Type))
     /\ Happened(Called("GetUser", "ok"))
     /\ Happened(Called("GetPost", "ok"))
     /\ Happened(Called("Issues.Create", "ok"))
     /\ Happened(Called("CreatePost", "ok")))
    => /\ status = StatusOK
       /\ events = <<Called("GetUser", "ok"), Called("GetConfig", "ok"),
                     Called("GetPost", "ok"), Called("Issues.Create", "ok"),
                     Called("CreatePost", "ok")>>
       /\ issueRequest.Owner \o <<"/">> \o issueRequest.Repo = ConfiguredFor(request.Type)
       /\ issueRequest.Title = "Request for Documentation: " \o request.Title
       /\ post.ChannelId = docPost.ChannelId
       /\ post.UserId = userID
       /\ docPost.Id = request.PostID
       /\ post.Message.permalink.base = serverConfig.SiteURL.base
       /\ post.Message.permalink.path =
              SelectSeq(serverConfig.SiteURL.path, LAMBDA e : e # "")
                  \o <<"_redirect", "pl", request.PostID>>
       /\ post.Message.issue = issue.HTMLURL

C7_Witness ==
    /\ pc = "done"
    /\ status = StatusOK
    /\ userID = "U1"
    /\ request.Type = "developer"
    /\ configuration.AdminRepository = PlainRepository.AdminRepository
    /\ issueRequest.Owner = <<"d">>
    /\ issueRequest.Repo = <<"y">>
    /\ docPost.RootId = ""
    /\ serverConfig.SiteURL.base = "https://chat.example.com"
    /\ post.Message.permalink.path = <<"_redirect", "pl", "M1">>
    /\ Happened(Called("CreatePost", "ok"))

(* C8: the confirmation post's thread root is the source message's own id  *)
(* when the source message has no parent, and the parent's id otherwise;   *)
(* its channel is the source message's channel.                            *)
C8_ThreadRoot ==
    Attempted("CreatePost") =>
        /\ docPost.RootId = "" => post.RootId = docPost.Id
        /\ docPost.RootId # "" => post.RootId = docPost.RootId
        /\ post.RootId # ""
        /\ post.ChannelId = docPost.ChannelId

C8_Witness ==
    /\ Happened(Called("CreatePost", "ok"))
    /\ docPost.RootId = "P"
    /\ docPost.Id = "M1"
    /\ post.RootId = "P"

(* The log message of the step that failed, read from the request and the  *)
(* events before position i.                                               *)
CauseBefore(i) ==
    IF i >= 1 /\ events[i].info = "err"
    THEN CASE events[i].op = "GetUser"       -> "Unable to get user"
           [] events[i].op = "GetPost"       -> "Unable to get post"
           [] events[i].op = "Issues.Create" -> "Error creating GitHub issue"
           [] events[i].op = "CreatePost"    -> "Unable to create post"
    ELSE IF request.kind = "malformed" THEN "Unable to decode JSON"
    ELSE "Bad configured repo"

(* C9: every status 500 is written right after a log entry that names the  *)
(* cause of the failure, and no 500 is written without one.                *)
C9_LoggedBefore500 ==
    /\ \A i \in DOMAIN events :
          events[i] = WriteHeader(StatusInternalServerError) =>
              /\ i > 1
              /\ events[i - 1] = LogError(CauseBefore(i - 2))
    /\ status = StatusInternalServerError =>
          /\ Happened(WriteHeader(StatusInternalServerError))
          /\ Cardinality({i \in DOMAIN events : events[i].op = "LogError"}) = 1

C9_Witness ==
    /\ pc = "done"
    /\ status = StatusInternalServerError
    /\ Len(events) = 7
    /\ events[5] = Called("CreatePost", "err")
    /\ events[6] = LogError("Unable to create post")

(* C10: the label list passed to the issue creation is the configured      *)
(* label string split on ',', in order ("a,b,c" gives "a", "b", "c"); an   *)
(* empty label string gives the empty list and no error.                   *)
C10_Labels ==
    /\ Attempted("Issues.Create") =>
          /\ configuration.Labels = <<>> => issueRequest.Labels = <<>>
          /\ configuration.Labels # <<>> =>
                /\ Join(issueRequest.Labels, ",") = configuration.Labels
                /\ \A k \in DOMAIN issueRequest.Labels :
                      ~Contains(issueRequest.Labels[k], ",")
    /\ (pc = "GetUser" /\ configuration.Labels = <<>>) => labels = <<>>
    /\ ParseLabels(<<"a", ",", "b", ",", "c">>) = <<<<"a">>, <<"b">>, <<"c">>>>

C10_Witness ==
    /\ Happened(Called("Issues.Create", "ok"))
    /\ configuration.Labels = <<"a", ",", "a">>
    /\ issueRequest.Labels = <<<<"a">>, <<"a">>>>

====
